---- MODULE Spec2Model ----
(***************************************************************************)
(* A model of mocktail's MockServer (src/mocktail/src/server.rs): the      *)
(* start() sequence (already-running check, bind loop, accept-loop spawn,  *)
(* readiness probe loop, publication of addr and base_url) run by several  *)
(* overlapping callers on several servers that share the host's ports,    *)
(* and the mock registry behind MockServerState.mocks, written by the      *)
(* owning test and by the connection tasks that dispatch requests.         *)
(*                                                                         *)
(* An Option<T> is a set with at most one element: None is {} and Some(x)  *)
(* is {x}.                                                                 *)
(***************************************************************************)
EXTENDS Integers, FiniteSets, Sequences, TLC

\* ------------------------------------------------------------------ bounds

\* The host's bindable ports are 1..MaxPort; candidate port 0 asks the host
\* to pick a free one.
MaxPort == 2
\* Configured retry caps are drawn from 0..MaxBindRetries and 0..MaxReadyRetries.
MaxBindRetries == 1
MaxReadyRetries == 1

\* MockServerConfig::default(): bind_max_retries, ready_connect_max_retries
DefaultBindMaxRetries == 10
DefaultReadyConnectMaxRetries == 30

Servers == {"s1", "s2"}
\* Callers of start(): each is a task that holds a shared reference to a server.
Calls == {"c1", "c2"}

Ports == 1..MaxPort

None == {}
Some(x) == {x}

\* ------------------------------------------------------------------- state

VARIABLES
    config,       \* MockServer.config, per server
    addr,         \* MockServer.addr: OnceLock<SocketAddr>, per server
    base_url,     \* MockServer.base_url: OnceLock<Url>, per server
    bound,        \* ports held by a live TcpListener
    acceptLoops,  \* ports whose listener is owned by a spawned accept loop
    connected,    \* ports to which a direct connection (the probe) has succeeded
    srv,          \* per caller: the server it holds a reference to
    pc,           \* per caller: position in start()
    counter,      \* per caller: the local `counter` of the loop it is in
    listener,     \* per caller: Option of the port of the listener it holds or has spawned
    result,       \* per caller: what its last start() returned
    attempts,     \* per caller: bind attempts made by this start()
    probes,       \* per caller: readiness probes made by this start()
    sleeps,       \* per caller: 10 ms sleeps taken by this start()
    mocks,        \* MockServerState.mocks: the MockSet, in insertion order
    registered,   \* per mock of the MockSet: the options it was registered with
    writer,       \* Option of the task holding the RwLock's write guard
    cpc,          \* per connection task: position in a dispatch
    req,          \* per connection task: the request being dispatched
    chosen,       \* per connection task: Option of the index of the mock selected
    served,       \* requests dispatched so far
    token,        \* the method token of the message being converted
    target,       \* the request target (URI) of the message being converted
    parsed,       \* Option of the outcome of token.parse::<Method>()
    tried,        \* Option of the outcome of Method::try_from(token)
    built,        \* Option of the outcome of Request::from_parts
    readers,      \* the tasks holding a read guard of the RwLock
    seen,         \* per reading task: Option of the MockSet it read when it took its guard
    tpc,          \* the test's position around the guard returned by MockServer::mocks()
    kind,         \* MockServer.kind
    server_kind,  \* Option of the kind the running accept loop was spawned with
    backlog,      \* connections waiting in the listener's queue, oldest first
    cstate,       \* per connection: its lifecycle state
    builder,      \* per connection: Option of the connection builder of its task
    protocol,     \* per connection: Option of the protocol it is served with
    failed,       \* the connections that were closed by an error
    acceptErrors  \* the errors listener.accept() has returned so far

ctlVars == <<config, addr, base_url, bound, acceptLoops, connected, srv, pc, counter,
             listener, result, attempts, probes, sleeps>>

regVars == <<mocks, registered, writer, cpc, req, chosen, served>>

reqVars == <<token, target, parsed, tried, built>>

lockVars == <<readers, seen, tpc>>

connVars == <<kind, server_kind, backlog, cstate, builder, protocol, failed, acceptErrors>>

vars == <<ctlVars, regVars, reqVars, lockVars, connVars>>

shared == <<addr, base_url, bound, acceptLoops, connected>>

\* ----------------------------------------------------------- configuration

\* The configurations the model draws from: every retry cap up to the bounds,
\* and port ranges that are empty ([1,1)), hold only port 0 ([0,1)), or cover
\* the host's ports with or without port 0.
Configs ==
    [listen_addr : {"0.0.0.0"},
     port_range_start : {0, 1},
     port_range_end : {1, MaxPort + 1},
     bind_max_retries : 0..MaxBindRetries,
     ready_connect_max_retries : 0..MaxReadyRetries]

\* MockServerConfig::default()
DefaultConfig ==
    [listen_addr |-> "0.0.0.0",
     port_range_start |-> 10000,
     port_range_end |-> 30000,
     bind_max_retries |-> DefaultBindMaxRetries,
     ready_connect_max_retries |-> DefaultReadyConnectMaxRetries]

\* self.config.port_range_start..self.config.port_range_end (half-open)
PortRange(cfg) == cfg.port_range_start .. (cfg.port_range_end - 1)

\* ---------------------------------------------------------------- accessors

Addr(s) == addr[s]

IsRunning(s) == Addr(s) # None

Port(s) == {a.port : a \in Addr(s)}

Hostname(s) == {a.ip : a \in Addr(s)}

BaseUrl(s) == base_url[s]

SocketAddrOf(ip, port) == [ip |-> ip, port |-> port]

\* Url::parse(&format!("http://{}", &addr))
UrlOf(a) == [scheme |-> "http", host |-> a.ip, port |-> a.port]

\* -------------------------------------------------------------- environment

\* A bind that also succeeds on a port a live listener holds (port sharing).
TcpBindShared(port) ==
    {None} \cup
    (IF port = 0 THEN {Some(p) : p \in Ports \ bound}
     ELSE IF port \notin Ports THEN {}
     ELSE {Some(port)})

\* TcpListener::bind(&addr): the possible outcomes for a candidate port, each an
\* Option of the port the new listener holds. A bind may always fail; it can
\* succeed only on a port no live listener holds; port 0 yields any free port.
TcpBind(port) ==
    {None} \cup
    (IF port = 0 THEN {Some(p) : p \in Ports \ bound}
     ELSE IF port \in bound \/ port \notin Ports THEN {}
     ELSE {Some(port)})

\* --------------------------------------------------------------- operations

\* Error::ServerError("server failed to bind to port") and
\* Error::ServerError("server failed to become ready")
StartupFailures == {"bind_exhausted", "not_ready"}

\* What start() can return: Ok(()) or an Error.
Returns == {"ok", "already_running", "io_error"} \cup StartupFailures

Terminal(c) == pc[c] \in {"idle", "done"}

\* The call ends: its locals are dropped, `res` is what the caller sees.
Finish(c, res) ==
    /\ pc' = [pc EXCEPT ![c] = "done"]
    /\ result' = [result EXCEPT ![c] = res]
    /\ counter' = [counter EXCEPT ![c] = 0]
    /\ listener' = [listener EXCEPT ![c] = None]

\* start() without the already-running check of lines 95-97.
StartCallUnchecked(c) ==
    /\ Terminal(c)
    /\ attempts' = [attempts EXCEPT ![c] = 0]
    /\ probes' = [probes EXCEPT ![c] = 0]
    /\ sleeps' = [sleeps EXCEPT ![c] = 0]
    /\ pc' = [pc EXCEPT ![c] = "bind"]
    /\ result' = [result EXCEPT ![c] = "none"]
    /\ counter' = [counter EXCEPT ![c] = 0]
    /\ listener' = [listener EXCEPT ![c] = None]
    /\ UNCHANGED <<regVars, config, shared, srv>>

\* start(), lines 94-100: the already-running check and the bind loop's locals.
StartCall(c) ==
    /\ Terminal(c)
    /\ attempts' = [attempts EXCEPT ![c] = 0]
    /\ probes' = [probes EXCEPT ![c] = 0]
    /\ sleeps' = [sleeps EXCEPT ![c] = 0]
    /\ IF IsRunning(srv[c])
       THEN Finish(c, "already_running")
       ELSE /\ pc' = [pc EXCEPT ![c] = "bind"]
            /\ result' = [result EXCEPT ![c] = "none"]
            /\ counter' = [counter EXCEPT ![c] = 0]
            /\ listener' = [listener EXCEPT ![c] = None]
    /\ UNCHANGED <<regVars, config, shared, srv>>

\* Lines 103-113 for one drawn candidate `port` and one outcome `got` of the
\* bind, leaving the loop after a failure when `exhausted` holds.
BindStep(c, port, got, exhausted) ==
    /\ attempts' = [attempts EXCEPT ![c] = @ + 1]
    /\ IF got # None
       THEN /\ listener' = [listener EXCEPT ![c] = got]
            /\ bound' = bound \cup got
            /\ pc' = [pc EXCEPT ![c] = "spawn"]
            /\ UNCHANGED <<counter, result>>
       ELSE IF exhausted
       THEN /\ Finish(c, "bind_exhausted")
            /\ UNCHANGED bound
       ELSE /\ counter' = [counter EXCEPT ![c] = @ + 1]
            /\ UNCHANGED <<bound, listener, pc, result>>
    /\ UNCHANGED <<regVars, config, addr, base_url, acceptLoops, connected, srv, probes, sleeps>>

\* rng.random_range panics on an empty range, line 104.
EmptyRangePanic(c) ==
    /\ PortRange(config[srv[c]]) = {}
    /\ Finish(c, "panic")
    /\ UNCHANGED <<regVars, config, shared, srv, attempts, probes, sleeps>>

\* The bind iteration giving up one failed attempt later (counter > bind_max_retries).
BindOnLateExit(c, port, got) ==
    /\ pc[c] = "bind"
    /\ port \in PortRange(config[srv[c]])
    /\ got \in TcpBind(port)
    /\ BindStep(c, port, got, counter[c] > config[srv[c]].bind_max_retries)

\* One iteration of the bind loop, lines 102-114, with candidate `port` drawn
\* from the configured range and `got` the outcome of binding it.
BindOn(c, port, got) ==
    /\ pc[c] = "bind"
    /\ port \in PortRange(config[srv[c]])
    /\ got \in TcpBind(port)
    /\ BindStep(c, port, got, counter[c] = config[srv[c]].bind_max_retries)

\* What a bind can return: an error or a listener on one of the host's ports.
BindOutcomes == {None} \cup {Some(p) : p \in Ports}

\* One iteration of the bind loop, lines 102-114.
BindAttempt(c) ==
    /\ pc[c] = "bind"
    /\ \/ EmptyRangePanic(c)
       \/ \E port \in PortRange(config[srv[c]]) : \E got \in BindOutcomes :
            BindOn(c, port, got)

\* Lines 116-131 with the address published as soon as the accept loop is
\* spawned, before the readiness probe.
SpawnPublishing(c) ==
    /\ pc[c] = "spawn"
    /\ UNCHANGED attempts
    /\ \E ok \in BOOLEAN :
       IF ok
       THEN /\ acceptLoops' = acceptLoops \cup listener[c]
            /\ addr' = [addr EXCEPT ![srv[c]] =
                           IF @ = None
                           THEN {SocketAddrOf(config[srv[c]].listen_addr, p) : p \in listener[c]}
                           ELSE @]
            /\ counter' = [counter EXCEPT ![c] = 0]
            /\ pc' = [pc EXCEPT ![c] = "probe"]
            /\ UNCHANGED <<bound, listener, result>>
       ELSE /\ bound' = bound \ listener[c]
            /\ Finish(c, "io_error")
            /\ UNCHANGED <<acceptLoops, addr>>
    /\ UNCHANGED <<regVars, config, base_url, connected, srv, probes, sleeps>>

\* Lines 116-131: local_addr()?, the base URL, tokio::spawn(run_server(..)) which
\* moves the listener into the accept loop, and the probe loop's own counter.
Spawn(c) ==
    /\ pc[c] = "spawn"
    /\ UNCHANGED attempts
    /\ \E ok \in BOOLEAN :
       IF ok
       THEN /\ acceptLoops' = acceptLoops \cup listener[c]
            /\ counter' = [counter EXCEPT ![c] = 0]
            /\ pc' = [pc EXCEPT ![c] = "probe"]
            /\ UNCHANGED <<bound, listener, result>>
       ELSE \* local_addr() failed: `?` returns the error and drops the listener
            /\ bound' = bound \ listener[c]
            /\ Finish(c, "io_error")
            /\ UNCHANGED acceptLoops
    /\ UNCHANGED <<regVars, config, addr, base_url, connected, srv, probes, sleeps>>

\* The readiness loop leaving on any probe outcome: a failed connection
\* attempt is taken for a successful one.
ProbeUnchecked(c) ==
    /\ pc[c] = "probe"
    /\ probes' = [probes EXCEPT ![c] = @ + 1]
    /\ \E ok \in BOOLEAN :
       /\ connected' = IF ok THEN connected \cup listener[c] ELSE connected
       /\ pc' = [pc EXCEPT ![c] = "set_addr"]
       /\ UNCHANGED <<counter, listener, result>>
    /\ UNCHANGED <<regVars, config, addr, base_url, bound, acceptLoops, srv, attempts, sleeps>>

\* The readiness loop giving up one failed probe later
\* (counter > ready_connect_max_retries).
ProbeLateExit(c) ==
    /\ pc[c] = "probe"
    /\ probes' = [probes EXCEPT ![c] = @ + 1]
    /\ \E ok \in BOOLEAN :
       IF ok
       THEN /\ connected' = connected \cup listener[c]
            /\ pc' = [pc EXCEPT ![c] = "set_addr"]
            /\ UNCHANGED <<counter, listener, result>>
       ELSE IF counter[c] > config[srv[c]].ready_connect_max_retries
       THEN /\ Finish(c, "not_ready")
            /\ UNCHANGED connected
       ELSE /\ counter' = [counter EXCEPT ![c] = @ + 1]
            /\ pc' = [pc EXCEPT ![c] = "sleep"]
            /\ UNCHANGED <<connected, listener, result>>
    /\ UNCHANGED <<regVars, config, addr, base_url, bound, acceptLoops, srv, attempts, sleeps>>

\* One iteration of the readiness loop up to its sleep, lines 132-139.
Probe(c) ==
    /\ pc[c] = "probe"
    /\ probes' = [probes EXCEPT ![c] = @ + 1]
    /\ \E ok \in BOOLEAN :
       IF ok
       THEN /\ connected' = connected \cup listener[c]
            /\ pc' = [pc EXCEPT ![c] = "set_addr"]
            /\ UNCHANGED <<counter, listener, result>>
       ELSE IF counter[c] = config[srv[c]].ready_connect_max_retries
       THEN /\ Finish(c, "not_ready")
            /\ UNCHANGED connected
       ELSE /\ counter' = [counter EXCEPT ![c] = @ + 1]
            /\ pc' = [pc EXCEPT ![c] = "sleep"]
            /\ UNCHANGED <<connected, listener, result>>
    /\ UNCHANGED <<regVars, config, addr, base_url, bound, acceptLoops, srv, attempts, sleeps>>

\* tokio::time::sleep(Duration::from_millis(10)).await, line 140.
Sleep(c) ==
    /\ pc[c] = "sleep"
    /\ sleeps' = [sleeps EXCEPT ![c] = @ + 1]
    /\ pc' = [pc EXCEPT ![c] = "probe"]
    /\ UNCHANGED <<regVars, config, shared, srv, counter, listener, result, attempts, probes>>

\* self.addr.set(addr).unwrap(), line 144.
SetAddr(c) ==
    /\ pc[c] = "set_addr"
    /\ IF addr[srv[c]] = None
       THEN /\ addr' = [addr EXCEPT ![srv[c]] =
                           {SocketAddrOf(config[srv[c]].listen_addr, p) : p \in listener[c]}]
            /\ pc' = [pc EXCEPT ![c] = "set_base_url"]
            /\ UNCHANGED <<counter, listener, result>>
       ELSE \* OnceLock::set returns Err on a cell already set; unwrap panics
            /\ Finish(c, "panic")
            /\ UNCHANGED addr
    /\ UNCHANGED <<regVars, config, base_url, bound, acceptLoops, connected, srv, attempts,
                   probes, sleeps>>

\* self.base_url.set(base_url).unwrap(); Ok(()), lines 145-147.
SetBaseUrl(c) ==
    /\ pc[c] = "set_base_url"
    /\ IF base_url[srv[c]] = None
       THEN /\ base_url' = [base_url EXCEPT ![srv[c]] =
                               {UrlOf(SocketAddrOf(config[srv[c]].listen_addr, p)) : p \in listener[c]}]
            /\ Finish(c, "ok")
       ELSE /\ Finish(c, "panic")
            /\ UNCHANGED base_url
    /\ UNCHANGED <<regVars, config, addr, bound, acceptLoops, connected, srv, attempts,
                   probes, sleeps>>

\* ----------------------------------------------------------- mock registry

\* Requests as the matchers see them; a matcher is the set of requests it accepts.
Requests == {"r1", "r2"}
Matchers == {{"r1"}, {"r1", "r2"}}

\* Connection tasks spawned by the accept loop; the owning test is "test".
Conns == {"t1", "t2"}

\* Registration options a test passes: priorities and Option<usize> limits.
Priorities == {1, 5}
MaxLimit == 1
Limits == {None} \cup {Some(n) : n \in 0..MaxLimit}

\* Bounds of a run: mocks registered at once and requests dispatched.
MaxMocks == 2
MaxRequests == 3

\* Mock's default priority ("mid-range"; the value the crate documents).
DefaultPriority == 5

\* Mock::new(f): the matcher the callback declares, default priority, unlimited uses.
MockNew(f) ==
    [matcher |-> f, priority |-> DefaultPriority, remaining_uses |-> None,
     fired_count |-> 0, seq |-> 0]

\* Mock::with_priority
WithPriority(mock, priority) == [mock EXCEPT !.priority = priority]

\* Mock::with_limit
WithLimit(mock, limit) == [mock EXCEPT !.remaining_uses = Some(limit)]

\* MockSet::insert: append with the next insertion sequence number.
MockSetInsert(ms, mock) == Append(ms, [mock EXCEPT !.seq = Len(ms) + 1])

\* The mock still has uses: remaining-uses is nonzero or unlimited.
HasUses(mock) == \A n \in mock.remaining_uses : n > 0

\* Step 1 of MockSet::select: the mock matches and still has uses.
Eligible(mock, r) == r \in mock.matcher /\ HasUses(mock)

\* Steps 1-3 of MockSet::select as a scan in insertion order that keeps the
\* best mock so far: a later mock replaces it only with a higher priority.
RECURSIVE SelectFrom(_, _, _, _)
SelectFrom(ms, r, i, best) ==
    IF i > Len(ms) THEN best
    ELSE IF /\ Eligible(ms[i], r)
            /\ \A b \in best : ms[i].priority > ms[b].priority
         THEN SelectFrom(ms, r, i + 1, Some(i))
         ELSE SelectFrom(ms, r, i + 1, best)

\* MockSet::select's choice: Option of the index of the selected mock.
Select(ms, r) == SelectFrom(ms, r, 1, None)

\* Step 4 of MockSet::select: count the firing and use up one remaining use.
Consume(ms, sel) ==
    [i \in DOMAIN ms |->
        IF i \in sel
        THEN [ms[i] EXCEPT !.fired_count = @ + 1,
                           !.remaining_uses = {n - 1 : n \in @}]
        ELSE ms[i]]

\* MockServer::mock, lines 187-193, on the MockSet behind the write guard.
MockInserted(ms, f) == MockSetInsert(ms, MockNew(f))

\* mock_with_options with the limit dropped.
MockWithOptionsNoLimit(ms, priority, limit, f) ==
    MockSetInsert(ms, WithPriority(MockNew(f), priority))

\* mock_with_options with the priority dropped.
MockWithOptionsNoPriority(ms, priority, limit, f) ==
    MockSetInsert(ms, IF limit # None
                      THEN WithLimit(MockNew(f), CHOOSE n \in limit : TRUE)
                      ELSE MockNew(f))

\* MockServer::mock_with_options, lines 196-205, on the MockSet behind the write guard.
MockWithOptionsInserted(ms, priority, limit, f) ==
    MockSetInsert(ms, IF limit # None
                      THEN WithLimit(WithPriority(MockNew(f), priority),
                                     CHOOSE n \in limit : TRUE)
                      ELSE WithPriority(MockNew(f), priority))

\* self.state.mocks.write() granted although another task holds a guard.
LockFreeUnchecked == TRUE

\* self.state.mocks.write(): the guard is granted when nobody holds the lock,
\* neither a writer nor a reader.
LockFree == writer = None /\ readers = {}

\* server.mock(f): takes the write guard, inserts, drops the guard.
RegisterMock ==
    /\ LockFree
    /\ Len(mocks) < MaxMocks
    /\ \E f \in Matchers :
        /\ mocks' = MockInserted(mocks, f)
        /\ registered' = Append(registered, [priority |-> DefaultPriority, limit |-> None])
    /\ UNCHANGED <<ctlVars, writer, cpc, req, chosen, served>>

\* server.mock_with_options(priority, limit, f)
RegisterMockWithOptions ==
    /\ LockFree
    /\ Len(mocks) < MaxMocks
    /\ \E f \in Matchers : \E priority \in Priorities : \E limit \in Limits :
        /\ mocks' = MockWithOptionsInserted(mocks, priority, limit, f)
        /\ registered' = Append(registered, [priority |-> priority, limit |-> limit])
    /\ UNCHANGED <<ctlVars, writer, cpc, req, chosen, served>>

\* server.with_mocks(mocks), lines 83-86: the whole set is replaced under one
\* write guard. The new set is empty or holds one fresh mock.
WithMocks ==
    /\ LockFree
    /\ mocks # <<>>
    /\ \/ /\ mocks' = <<>>
          /\ registered' = <<>>
       \/ \E f \in Matchers : \E priority \in Priorities : \E limit \in Limits :
          /\ mocks' = MockWithOptionsInserted(<<>>, priority, limit, f)
          /\ registered' = <<[priority |-> priority, limit |-> limit]>>
    /\ UNCHANGED <<ctlVars, writer, cpc, req, chosen, served>>

\* A connection task has a parsed request to dispatch.
Receive(t) ==
    /\ cpc[t] = "idle"
    /\ served < MaxRequests
    /\ \E r \in Requests : req' = [req EXCEPT ![t] = Some(r)]
    /\ served' = served + 1
    /\ cpc' = [cpc EXCEPT ![t] = "waiting"]
    /\ UNCHANGED <<ctlVars, mocks, registered, writer, chosen>>

\* The dispatch takes the exclusive write handle for selection.
LockWrite(t) ==
    /\ cpc[t] = "waiting"
    /\ LockFree
    /\ writer' = Some(t)
    /\ cpc' = [cpc EXCEPT ![t] = "selecting"]
    /\ UNCHANGED <<ctlVars, mocks, registered, req, chosen, served>>

\* MockSet::select steps 1-3, under the guard.
SelectMock(t) ==
    /\ cpc[t] = "selecting"
    /\ chosen' = [chosen EXCEPT ![t] = Select(mocks, CHOOSE r \in req[t] : TRUE)]
    /\ cpc' = [cpc EXCEPT ![t] = "consuming"]
    /\ UNCHANGED <<ctlVars, mocks, registered, writer, req, served>>

\* MockSet::select step 4, then the guard is dropped and the response produced.
ConsumeMock(t) ==
    /\ cpc[t] = "consuming"
    /\ mocks' = Consume(mocks, chosen[t])
    /\ writer' = writer \ {t}
    /\ cpc' = [cpc EXCEPT ![t] = "idle"]
    /\ req' = [req EXCEPT ![t] = None]
    /\ chosen' = [chosen EXCEPT ![t] = None]
    /\ UNCHANGED <<ctlVars, registered, served>>

\* Tasks that inspect the registry through MockServerState::mocks().
Inspectors == {"i1", "i2"}

\* The tasks that hold the write guard: a connection task between taking it
\* and dropping it, the test while it keeps the guard of MockServer::mocks().
WriteHolders ==
    {t \in Conns : cpc[t] \in {"selecting", "consuming"}}
        \cup {h \in {"test"} : tpc \in {"holding", "suspended"}}

\* MockServerState::mocks(), lines 221-223: self.mocks.read() is granted when
\* no writer holds the lock; the task reads the set behind its guard.
ReadLock(i) ==
    /\ i \notin readers
    /\ writer = None
    /\ readers' = readers \cup {i}
    /\ seen' = [seen EXCEPT ![i] = Some(mocks)]
    /\ UNCHANGED <<ctlVars, regVars, tpc>>

\* The read guard is dropped.
ReadUnlock(i) ==
    /\ i \in readers
    /\ readers' = readers \ {i}
    /\ seen' = [seen EXCEPT ![i] = None]
    /\ UNCHANGED <<ctlVars, regVars, tpc>>

\* MockServer::mocks(), lines 182-184: self.state.mocks.write() is taken and
\* the RwLockWriteGuard is returned to the caller.
MocksGuard ==
    /\ tpc = "running"
    /\ LockFree
    /\ writer' = Some("test")
    /\ tpc' = "holding"
    /\ UNCHANGED <<ctlVars, mocks, registered, cpc, req, chosen, served, readers, seen>>

\* The caller reaches an .await (a client request, a sleep) with the guard of
\* MockServer::mocks() still in scope.
GuardSuspend ==
    /\ tpc = "holding"
    /\ tpc' = "suspended"
    /\ UNCHANGED <<ctlVars, regVars, readers, seen>>

\* The awaited future completes.
GuardResume ==
    /\ tpc = "suspended"
    /\ tpc' = "holding"
    /\ UNCHANGED <<ctlVars, regVars, readers, seen>>

\* The guard of MockServer::mocks() goes out of scope.
GuardDrop ==
    /\ tpc = "holding"
    /\ writer' = None
    /\ tpc' = "running"
    /\ UNCHANGED <<ctlVars, mocks, registered, cpc, req, chosen, served, readers, seen>>

\* The registry of a new server: MockServerState::default(), nothing in flight.
RegistryIdle ==
    /\ mocks = <<>>
    /\ registered = <<>>
    /\ writer = None
    /\ cpc = [t \in Conns |-> "idle"]
    /\ req = [t \in Conns |-> None]
    /\ chosen = [t \in Conns |-> None]
    /\ served = 0
    /\ readers = {}
    /\ seen = [i \in Inspectors |-> None]
    /\ tpc = "running"

\* ------------------------------------------------------------- connections

\* Bounds of a run: connections made to the listener and accept errors.
MaxConns == 3
MaxAcceptErrors == 1

ConnIds == 1..MaxConns

\* enum ServerKind, lines 226-230.
ServerKinds == {"Http", "Grpc"}

\* The builder of a connection task with every kind served by auto-detection.
BuilderAlwaysAuto(k) == "auto"

\* Lines 270-273: the connection builder by the kind the task was given:
\* conn::auto::Builder for Http, the same with http2_only() for Grpc.
BuilderOf(k) == IF k = "Grpc" THEN "http2_only" ELSE "auto"

\* MockServer::grpc(), lines 77-80: the builder method sets self.kind.
Grpc ==
    /\ kind = "Http"
    /\ kind' = "Grpc"
    /\ UNCHANGED <<server_kind, backlog, cstate, builder, protocol, failed, acceptErrors>>

\* start(), lines 120-129, and run_server, lines 242-283: the accept loop is
\* spawned with the listener and a copy of self.kind.
RunServer ==
    /\ server_kind = None
    /\ server_kind' = Some(kind)
    /\ UNCHANGED <<kind, backlog, cstate, builder, protocol, failed, acceptErrors>>

\* A client connects: the connection waits in the listener's queue.
Connect(i) ==
    /\ server_kind # None
    /\ cstate[i] = "none"
    /\ cstate' = [cstate EXCEPT ![i] = "pending"]
    /\ backlog' = Append(backlog, i)
    /\ UNCHANGED <<kind, server_kind, builder, protocol, failed, acceptErrors>>

\* The accept loop serving the connection itself: it accepts the next one
\* only when no accepted connection is still open.
AcceptOkInline ==
    /\ backlog # <<>>
    /\ \A j \in ConnIds : cstate[j] \notin {"accepted", "negotiating", "serving"}
    /\ \E k \in server_kind :
        builder' = [builder EXCEPT ![Head(backlog)] = Some(BuilderOf(k))]
    /\ cstate' = [cstate EXCEPT ![Head(backlog)] = "accepted"]
    /\ backlog' = Tail(backlog)
    /\ UNCHANGED <<kind, server_kind, protocol, failed, acceptErrors>>

\* Lines 258-273: listener.accept() returns the oldest waiting connection and
\* the loop spawns a task for it, then accepts again. The task is spawned
\* with the loop's copy of the kind, which decides its builder.
AcceptOk ==
    /\ backlog # <<>>
    /\ \E k \in server_kind :
        builder' = [builder EXCEPT ![Head(backlog)] = Some(BuilderOf(k))]
    /\ cstate' = [cstate EXCEPT ![Head(backlog)] = "accepted"]
    /\ backlog' = Tail(backlog)
    /\ UNCHANGED <<kind, server_kind, protocol, failed, acceptErrors>>

\* The accept loop ending at the first accept error.
AcceptErrBreaks ==
    /\ server_kind # None
    /\ acceptErrors < MaxAcceptErrors
    /\ acceptErrors' = acceptErrors + 1
    /\ server_kind' = None
    /\ UNCHANGED <<kind, backlog, cstate, builder, protocol, failed>>

\* Lines 258-264: listener.accept() returns an error; it is logged and the
\* loop continues.
AcceptErr ==
    /\ server_kind # None
    /\ acceptErrors < MaxAcceptErrors
    /\ acceptErrors' = acceptErrors + 1
    /\ UNCHANGED <<kind, server_kind, backlog, cstate, builder, protocol, failed>>

\* Line 274: the task calls builder.serve_connection. With http2_only there
\* is nothing to negotiate: the connection is served as HTTP/2.
ServeConnection(i) ==
    /\ cstate[i] = "accepted"
    /\ IF builder[i] = Some("http2_only")
       THEN /\ cstate' = [cstate EXCEPT ![i] = "serving"]
            /\ protocol' = [protocol EXCEPT ![i] = Some("HTTP/2")]
       ELSE /\ cstate' = [cstate EXCEPT ![i] = "negotiating"]
            /\ UNCHANGED protocol
    /\ UNCHANGED <<kind, server_kind, backlog, builder, failed, acceptErrors>>

\* serve_connection of the auto builder: the protocol is detected from the
\* first bytes of the connection.
Negotiate(i) ==
    /\ cstate[i] = "negotiating"
    /\ \E p \in {"HTTP/1.1", "HTTP/2"} : protocol' = [protocol EXCEPT ![i] = Some(p)]
    /\ cstate' = [cstate EXCEPT ![i] = "serving"]
    /\ UNCHANGED <<kind, server_kind, backlog, builder, failed, acceptErrors>>

\* Lines 274-276: serve_connection returns an error (negotiation or framing
\* failure); it is logged and the task ends.
ConnError(i) ==
    /\ cstate[i] \in {"negotiating", "serving"}
    /\ cstate' = [cstate EXCEPT ![i] = "closed"]
    /\ failed' = failed \cup {i}
    /\ UNCHANGED <<kind, server_kind, backlog, builder, protocol, acceptErrors>>

\* Line 274: serve_connection returns Ok: the peer has disconnected.
Disconnect(i) ==
    /\ cstate[i] = "serving"
    /\ cstate' = [cstate EXCEPT ![i] = "closed"]
    /\ UNCHANGED <<kind, server_kind, backlog, builder, protocol, failed, acceptErrors>>

\* A server of the given kind that has not been started.
NoListener(k) ==
    /\ kind = k
    /\ server_kind = None
    /\ backlog = <<>>
    /\ cstate = [i \in ConnIds |-> "none"]
    /\ builder = [i \in ConnIds |-> None]
    /\ protocol = [i \in ConnIds |-> None]
    /\ failed = {}
    /\ acceptErrors = 0

\* ---------------------------------------------------- Request and Method

\* enum Method, request.rs lines 83-94: each variant with the characters of
\* its name.
MethodNames ==
    [GET |-> <<"G", "E", "T">>,
     HEAD |-> <<"H", "E", "A", "D">>,
     POST |-> <<"P", "O", "S", "T">>,
     PUT |-> <<"P", "U", "T">>,
     DELETE |-> <<"D", "E", "L", "E", "T", "E">>,
     CONNECT |-> <<"C", "O", "N", "N", "E", "C", "T">>,
     OPTIONS |-> <<"O", "P", "T", "I", "O", "N", "S">>,
     TRACE |-> <<"T", "R", "A", "C", "E">>,
     PATCH |-> <<"P", "A", "T", "C", "H">>]

Methods == DOMAIN MethodNames

\* The letters of the tokens, lower case to upper case.
Upper ==
    [a |-> "A", c |-> "C", d |-> "D", e |-> "E", g |-> "G", h |-> "H",
     i |-> "I", l |-> "L", n |-> "N", o |-> "O", p |-> "P", r |-> "R",
     s |-> "S", t |-> "T", u |-> "U", x |-> "X"]

\* char::to_uppercase on the characters of the tokens: a lower-case letter
\* becomes its upper-case letter, every other character is kept.
CharToUpper(ch) == IF ch \in DOMAIN Upper THEN Upper[ch] ELSE ch

\* str::to_uppercase
ToUppercase(str) == [k \in DOMAIN str |-> CharToUpper(str[k])]

\* A Result: Ok(value) or Err.
Ok(v) == [ok |-> TRUE, value |-> v]
Err == [ok |-> FALSE, value |-> "Invalid HTTP method"]

\* The match of lines 107-116, 126-135 and 143-152 on a string: the variant
\* whose name is the string, if there is one.
MatchName(str) == {m \in Methods : MethodNames[m] = str}

\* impl FromStr for Method, lines 102-119.
FromStr(value) ==
    LET hit == MatchName(ToUppercase(value))
    IN  IF hit # {} THEN Ok(CHOOSE m \in hit : TRUE) ELSE Err

\* impl TryFrom<&str> for Method, lines 121-138.
TryFromStr(value) ==
    LET hit == MatchName(value)
    IN  IF hit # {} THEN Ok(CHOOSE m \in hit : TRUE) ELSE Err

\* impl From<http::Method> for Method, lines 140-155: Option of the variant;
\* None stands for the panic of unimplemented!().
FromHttpMethod(value) == MatchName(value)

\* The characters that spell ch in either letter case.
Cases(ch) == {ch} \cup {l \in DOMAIN Upper : Upper[l] = ch}

\* The spellings of a name in any letter case.
RECURSIVE Spellings(_)
Spellings(name) ==
    IF name = <<>>
    THEN {<<>>}
    ELSE {<<ch>> \o rest : ch \in Cases(Head(name)), rest \in Spellings(Tail(name))}

\* Tokens that spell no method: empty, truncated, extended, with a digit,
\* permuted, and an extension method of http::Method (written "XX").
OtherTokens ==
    {<<>>, <<"G", "E">>, <<"g", "e", "t", "s">>, <<"G", "E", "T", "1">>,
     <<"1">>, <<"X", "X">>, <<"x">>, <<"P", "O", "T">>, <<"T", "E", "G">>}

Tokens == UNION {Spellings(MethodNames[m]) : m \in Methods} \cup OtherTokens

\* Request targets by form: origin-form ("/x"), absolute-form ("http://h/x")
\* and authority-form ("127.0.0.1:8080", the target of CONNECT).
Targets ==
    {[form |-> "origin", authority |-> FALSE, scheme |-> FALSE],
     [form |-> "absolute", authority |-> TRUE, scheme |-> TRUE],
     [form |-> "authority", authority |-> TRUE, scheme |-> FALSE]}

\* Lines 26-31: the string handed to Url::parse and whether it starts with a
\* scheme; a target without authority is put behind "http://localhost".
UrlText(uri) ==
    IF uri.authority
    THEN [text |-> uri.form, scheme |-> uri.scheme]
    ELSE [text |-> "http://localhost" \o uri.form, scheme |-> TRUE]

\* str::parse::<Url>: a string without a scheme is a relative URL without a
\* base, which Url::parse refuses.
UrlParse(str) == IF str.scheme THEN Some(str.text) ELSE None

\* Request::from_parts, lines 25-39: the Request, or "panic" when the unwrap
\* of the URL or the conversion of the method panics.
FromParts(method, uri) ==
    LET url == UrlParse(UrlText(uri))
        m == FromHttpMethod(method)
    IN  IF url = None \/ m = None
        THEN "panic"
        ELSE [method |-> CHOOSE x \in m : TRUE, url |-> CHOOSE u \in url : TRUE]

\* A message whose method token and target are given.
Message(tok, uri) ==
    /\ token = tok
    /\ target = uri
    /\ parsed = None
    /\ tried = None
    /\ built = None

\* No message is being converted.
NoMessage ==
    /\ token = <<>>
    /\ target = CHOOSE u \in Targets : u.form = "origin"
    /\ parsed = None
    /\ tried = None
    /\ built = None

\* value.parse::<Method>()
ParseMethod ==
    /\ parsed = None
    /\ parsed' = Some(FromStr(token))
    /\ UNCHANGED <<ctlVars, regVars, token, target, tried, built>>

\* Method::try_from(value)
TryFromMethod ==
    /\ tried = None
    /\ tried' = Some(TryFromStr(token))
    /\ UNCHANGED <<ctlVars, regVars, token, target, parsed, built>>

\* Request::from_parts(parts) on a message whose method is the token
\* (http::Method keeps the token as written) and whose URI is the target.
BuildRequest ==
    /\ built = None
    /\ built' = Some(FromParts(token, target))
    /\ UNCHANGED <<ctlVars, regVars, token, target, parsed, tried>>

\* ------------------------------------------------------------ specification

\* The configurations of one run: the retry caps shape only a call's own
\* loops, so the servers get the same caps and independent port ranges.
RunConfigs ==
    UNION {[Servers -> {cfg \in Configs : /\ cfg.bind_max_retries = b
                                          /\ cfg.ready_connect_max_retries = r}] :
           b \in 0..MaxBindRetries, r \in 0..MaxReadyRetries}

\* Caller c1 holds server s1; caller c2 holds the same server or the other one.
Init ==
    /\ srv \in {f \in [Calls -> Servers] : f["c1"] = "s1"}
    /\ config \in {g \in RunConfigs :
                     \A s \in Servers : (\A c \in Calls : srv[c] # s) => g[s] = g["s1"]}
    /\ addr = [s \in Servers |-> None]
    /\ base_url = [s \in Servers |-> None]
    /\ bound = {}
    /\ acceptLoops = {}
    /\ connected = {}
    /\ pc = [c \in Calls |-> "idle"]
    /\ counter = [c \in Calls |-> 0]
    /\ listener = [c \in Calls |-> None]
    /\ result = [c \in Calls |-> "none"]
    /\ attempts = [c \in Calls |-> 0]
    /\ probes = [c \in Calls |-> 0]
    /\ sleeps = [c \in Calls |-> 0]
    /\ RegistryIdle
    /\ NoMessage
    /\ NoListener("Http")

Next ==
    /\ \E c \in Calls :
        \/ StartCall(c)
        \/ BindAttempt(c)
        \/ Spawn(c)
        \/ Probe(c)
        \/ Sleep(c)
        \/ SetAddr(c)
        \/ SetBaseUrl(c)
    /\ UNCHANGED <<reqVars, lockVars, connVars>>

Spec == Init /\ [][Next]_vars

\* ------------------------------------------------- properties of start()

\* A step in which caller c's start() returns `res` from inside the call.
ReturnsWith(c, res) == ~Terminal(c) /\ pc'[c] = "done" /\ result'[c] = res

\* C1: a start() on a server whose address is published returns the
\* already-running error at once: it makes no bind attempt, binds and spawns
\* nothing, and leaves addr(), port() and base_url() as they were; and no step
\* of any start() changes a port that has been published.
C1_StartOnRunningRejected ==
    [][/\ \A c \in Calls :
            (StartCall(c) /\ IsRunning(srv[c])) =>
                /\ pc'[c] = "done"
                /\ result'[c] = "already_running"
                /\ attempts'[c] = 0
                /\ listener'[c] = None
                /\ bound' = bound
                /\ acceptLoops' = acceptLoops
                /\ Addr(srv[c])' = Addr(srv[c])
                /\ Port(srv[c])' = Port(srv[c])
                /\ BaseUrl(srv[c])' = BaseUrl(srv[c])
       /\ \A s \in Servers : Port(s) # None => Port(s)' = Port(s)]_vars

\* C1 witness: a start() on a Running server has been rejected.
C1_Witness ==
    \E c \in Calls :
        /\ pc[c] = "done"
        /\ result[c] = "already_running"
        /\ IsRunning(srv[c])
        /\ BaseUrl(srv[c]) # None

\* C2: whatever addr() or base_url() publish is the port of a live listener
\* that an accept loop owns and to which a direct connection has succeeded;
\* the accessors derived from addr publish nothing before that; a caller that
\* has not yet had a probe succeed has not published its listener; and a
\* start() that returned Ok did so with its server Running on a connected port.
C2_PublishedOnlyWhenReady ==
    /\ \A s \in Servers :
        /\ \A a \in Addr(s) : a.port \in bound \cap acceptLoops \cap connected
        /\ \A u \in BaseUrl(s) : u.port \in bound \cap acceptLoops \cap connected
        /\ Port(s) \subseteq connected
        /\ (Hostname(s) # None \/ Port(s) # None \/ BaseUrl(s) # None) => IsRunning(s)
        /\ IsRunning(s) => \A p \in Port(s) : p \in connected
    /\ \A c \in Calls :
        /\ pc[c] \in {"bind", "spawn", "probe", "sleep"} =>
              /\ listener[c] \cap connected = {}
              /\ listener[c] \cap Port(srv[c]) = {}
        /\ (pc[c] = "done" /\ result[c] = "ok") =>
              /\ IsRunning(srv[c])
              /\ BaseUrl(srv[c]) # None
              /\ Port(srv[c]) \subseteq connected

\* C2 witness: a start() has returned Ok after at least one failed probe.
C2_Witness ==
    \E c \in Calls :
        /\ pc[c] = "done"
        /\ result[c] = "ok"
        /\ probes[c] >= 2
        /\ Port(srv[c]) \subseteq connected

\* C3: two servers are never Running on the same port; a bind attempt on a
\* candidate that a live listener holds acquires nothing, and it ends the call
\* (with the bind-exhausted error) only when the counter has reached
\* bind_max_retries, and otherwise leaves the call in the bind loop to draw a
\* new candidate.
C3_DistinctPorts ==
    /\ [](\A s1, s2 \in Servers :
            (s1 # s2 /\ IsRunning(s1) /\ IsRunning(s2)) => Port(s1) \cap Port(s2) = {})
    /\ [][\A c \in Calls : \A port \in bound : \A got \in BindOutcomes :
            BindOn(c, port, got) =>
                /\ got = None
                /\ listener'[c] = None
                /\ bound' = bound
                /\ IF counter[c] = config[srv[c]].bind_max_retries
                   THEN ReturnsWith(c, "bind_exhausted")
                   ELSE pc'[c] = "bind" /\ counter'[c] = counter[c] + 1]_vars

\* C3 witness: both servers are Running, one of them after a retried bind.
C3_Witness ==
    /\ \A s \in Servers : IsRunning(s)
    /\ \E c \in Calls : pc[c] = "done" /\ result[c] = "ok" /\ attempts[c] >= 2

\* C4 (as claimed): of two start() calls on the same server at most one binds
\* a listener, and none of them fails by a second write to the address cell.
C4_AtMostOneStartBinds ==
    /\ \A c1, c2 \in Calls :
        (c1 # c2 /\ srv[c1] = srv[c2]) => (listener[c1] = None \/ listener[c2] = None)
    /\ \A c \in Calls :
        (pc[c] = "done" /\ result[c] = "panic") => PortRange(config[srv[c]]) = {}

\* C5: a start() that returns the bind-exhausted or the not-ready error leaves
\* addr and base_url as they were and has not published its own listener, and
\* a start() on a server that is not Running is not rejected: it enters the
\* bind loop with fresh counters, whatever the previous start() returned.
C5_FailedStartCanBeRetried ==
    [][\A c \in Calls :
        /\ (\E res \in StartupFailures : ReturnsWith(c, res)) =>
              /\ Addr(srv[c])' = Addr(srv[c])
              /\ BaseUrl(srv[c])' = BaseUrl(srv[c])
              /\ IsRunning(srv[c])' = IsRunning(srv[c])
              /\ Port(srv[c])' \cap listener[c] = {}
        /\ (StartCall(c) /\ ~IsRunning(srv[c])) =>
              /\ pc'[c] = "bind"
              /\ result'[c] # "already_running"
              /\ counter'[c] = 0
              /\ attempts'[c] = 0
              /\ probes'[c] = 0]_vars

\* C5 witness: a single caller has had start() return Ok on a server where an
\* earlier start() of its own had failed not-ready. (The other caller never
\* called, so the accept loop that is not the published one is what that
\* earlier start() spawned before its probes failed.)
C5_Witness ==
    \E c \in Calls :
        /\ pc[c] = "done"
        /\ result[c] = "ok"
        /\ \A c2 \in Calls \ {c} : pc[c2] = "idle"
        /\ acceptLoops \ Port(srv[c]) # {}

\* C6 (as claimed): a start() makes at most bind_max_retries bind attempts and
\* returns the bind-exhausted error after exactly that many.
C6_AtMostMaxRetriesAttempts ==
    \A c \in Calls :
        /\ attempts[c] <= config[srv[c]].bind_max_retries
        /\ (pc[c] = "done" /\ result[c] = "bind_exhausted") =>
              attempts[c] = config[srv[c]].bind_max_retries

\* C6 (amended): a start() makes at most bind_max_retries + 1 bind attempts
\* (the first one and bind_max_retries retries) and returns the bind-exhausted
\* error after exactly that many; within the loop the counter is the number of
\* failed attempts so far.
C6_AtMostMaxRetriesPlusOneAttempts ==
    \A c \in Calls :
        /\ attempts[c] <= config[srv[c]].bind_max_retries + 1
        /\ pc[c] = "bind" => attempts[c] = counter[c]
        /\ (pc[c] = "done" /\ result[c] = "bind_exhausted") =>
              attempts[c] = config[srv[c]].bind_max_retries + 1

\* C6 witness: a start() has returned the bind-exhausted error after retrying.
C6_Witness ==
    \E c \in Calls :
        /\ pc[c] = "done"
        /\ result[c] = "bind_exhausted"
        /\ config[srv[c]].bind_max_retries >= 1
        /\ attempts[c] = config[srv[c]].bind_max_retries + 1

\* C7 (as claimed): a start() makes at most ready_connect_max_retries probes
\* and returns the not-ready error after exactly that many.
C7_AtMostMaxRetriesProbes ==
    \A c \in Calls :
        /\ probes[c] <= config[srv[c]].ready_connect_max_retries
        /\ (pc[c] = "done" /\ result[c] = "not_ready") =>
              probes[c] = config[srv[c]].ready_connect_max_retries

\* C7 (amended): a start() makes at most ready_connect_max_retries + 1 probes
\* (the first one and ready_connect_max_retries retries), all after its bind
\* succeeded, with one sleep between each two consecutive probes, and returns
\* the not-ready error after exactly that many probes.
C7_AtMostMaxRetriesPlusOneProbes ==
    \A c \in Calls :
        /\ probes[c] <= config[srv[c]].ready_connect_max_retries + 1
        /\ probes[c] > 0 => attempts[c] > 0
        /\ pc[c] = "probe" => sleeps[c] = probes[c]
        /\ (pc[c] # "probe" /\ probes[c] > 0) => sleeps[c] = probes[c] - 1
        /\ (pc[c] = "done" /\ result[c] = "not_ready") =>
              probes[c] = config[srv[c]].ready_connect_max_retries + 1

\* C7 witness: a start() has returned the not-ready error after retrying.
C7_Witness ==
    \E c \in Calls :
        /\ pc[c] = "done"
        /\ result[c] = "not_ready"
        /\ config[srv[c]].ready_connect_max_retries >= 1
        /\ probes[c] = config[srv[c]].ready_connect_max_retries + 1
        /\ sleeps[c] = config[srv[c]].ready_connect_max_retries

\* C8 (as claimed): every start() that ends has returned Ok or a typed error.
C8_StartReturnsOkOrError ==
    \A c \in Calls : pc[c] = "done" => result[c] \in Returns

\* The registry of one server that is serving connections: the test registers
\* and replaces mocks while the connection tasks dispatch requests.
RegistryInit ==
    /\ RegistryIdle
    /\ srv = [c \in Calls |-> "s1"]
    /\ config = [s \in Servers |-> DefaultConfig]
    /\ addr = [s \in Servers |-> None]
    /\ base_url = [s \in Servers |-> None]
    /\ bound = {}
    /\ acceptLoops = {}
    /\ connected = {}
    /\ pc = [c \in Calls |-> "idle"]
    /\ counter = [c \in Calls |-> 0]
    /\ listener = [c \in Calls |-> None]
    /\ result = [c \in Calls |-> "none"]
    /\ attempts = [c \in Calls |-> 0]
    /\ probes = [c \in Calls |-> 0]
    /\ sleeps = [c \in Calls |-> 0]
    /\ NoMessage
    /\ NoListener("Http")

RegistryNext ==
    /\ \/ RegisterMock
       \/ RegisterMockWithOptions
       \/ WithMocks
       \/ \E t \in Conns :
           \/ Receive(t)
           \/ LockWrite(t)
           \/ SelectMock(t)
           \/ ConsumeMock(t)
    /\ UNCHANGED <<reqVars, lockVars, connVars>>

RegistrySpec == RegistryInit /\ [][RegistryNext]_vars

\* ---------------------------------------------- properties of the registry

\* The request connection task t is dispatching.
RequestOf(t) == CHOOSE r \in req[t] : TRUE

\* The mocks of the registry that match r and still have uses.
EligibleMocks(r) == {j \in DOMAIN mocks : Eligible(mocks[j], r)}

\* C9: a mock registered with a limit is never selected more often than the
\* limit (with limit 1 it fires at most once however many tasks dispatch a
\* matching request): its firings and its remaining uses add up to the limit;
\* the mock a task has selected and is about to consume matches the request
\* and still has a use left; and at most one task is between its check of the
\* remaining uses and their consumption.
C9_LimitNeverExceeded ==
    /\ DOMAIN registered = DOMAIN mocks
    /\ \A i \in DOMAIN mocks : \A n \in registered[i].limit :
        /\ mocks[i].fired_count <= n
        /\ mocks[i].remaining_uses # None
        /\ \A left \in mocks[i].remaining_uses : mocks[i].fired_count + left = n
    /\ \A t \in Conns : \A i \in chosen[t] :
        /\ i \in DOMAIN mocks
        /\ RequestOf(t) \in mocks[i].matcher
        /\ mocks[i].remaining_uses # Some(0)
    /\ Cardinality({t \in Conns : cpc[t] \in {"selecting", "consuming"}}) <= 1

\* C9 witness: a mock registered with limit 1 has fired once and is used up,
\* and a task dispatching a request that the mock matches has selected nothing
\* while the other task waits with a request of its own.
C9_Witness ==
    \E i \in DOMAIN mocks : \E t, t2 \in Conns :
        /\ registered[i].limit = Some(1)
        /\ mocks[i].fired_count = 1
        /\ mocks[i].remaining_uses = Some(0)
        /\ cpc[t] = "consuming"
        /\ RequestOf(t) \in mocks[i].matcher
        /\ chosen[t] = None
        /\ cpc[t2] = "waiting"
        /\ req[t2] = req[t]

\* C10: the mock a dispatch selects is, among the mocks that match the request
\* and still have uses, the one registered with the highest priority, and
\* among those of equal priority the earliest inserted; nothing is selected
\* only when no mock is eligible. (With priorities 5 and 1 registered and both
\* eligible, the priority-5 mock is the one selected.)
C10_HighestPriorityEarliestInserted ==
    \A t \in Conns :
        cpc[t] = "consuming" =>
            /\ chosen[t] = None <=> EligibleMocks(RequestOf(t)) = {}
            /\ \A i \in chosen[t] :
                /\ i \in EligibleMocks(RequestOf(t))
                /\ mocks[i].seq = i
                /\ \A j \in EligibleMocks(RequestOf(t)) :
                    \/ registered[j].priority < registered[i].priority
                    \/ registered[j].priority = registered[i].priority /\ i <= j

\* C10 witness: two eligible mocks, the first registered with priority 1 and
\* the second with priority 5, and the second is the one selected.
C10_Witness ==
    \E t \in Conns :
        /\ cpc[t] = "consuming"
        /\ Len(mocks) >= 2
        /\ EligibleMocks(RequestOf(t)) = {1, 2}
        /\ registered[1].priority = 1
        /\ registered[2].priority = 5
        /\ chosen[t] = Some(2)

\* Equal priorities: two eligible mocks registered with the same priority, and
\* the earlier inserted is the one selected.
C10_TieWitness ==
    \E t \in Conns :
        /\ cpc[t] = "consuming"
        /\ Len(mocks) >= 2
        /\ EligibleMocks(RequestOf(t)) = {1, 2}
        /\ registered[1].priority = registered[2].priority
        /\ chosen[t] = Some(1)

\* ------------------------------------------------ specification of requests

\* No server has been started.
ControllerIdle ==
    /\ srv = [c \in Calls |-> "s1"]
    /\ config = [s \in Servers |-> DefaultConfig]
    /\ addr = [s \in Servers |-> None]
    /\ base_url = [s \in Servers |-> None]
    /\ bound = {}
    /\ acceptLoops = {}
    /\ connected = {}
    /\ pc = [c \in Calls |-> "idle"]
    /\ counter = [c \in Calls |-> 0]
    /\ listener = [c \in Calls |-> None]
    /\ result = [c \in Calls |-> "none"]
    /\ attempts = [c \in Calls |-> 0]
    /\ probes = [c \in Calls |-> 0]
    /\ sleeps = [c \in Calls |-> 0]

\* One message, of any token and target, on which the conversions of
\* request.rs are applied.
MethodInit ==
    /\ ControllerIdle
    /\ RegistryIdle
    /\ \E tok \in Tokens : \E uri \in Targets : Message(tok, uri)
    /\ NoListener("Http")

MethodNext ==
    /\ \/ ParseMethod
       \/ TryFromMethod
       \/ BuildRequest
    /\ UNCHANGED <<lockVars, connVars>>

MethodSpec == MethodInit /\ [][MethodNext]_vars

\* ---------------------------------------------- properties of the requests

\* What the conversion of a token is to give: the method the token spells in
\* some letter case, an error for a token that spells none.
Expected(tok) ==
    LET hit == {m \in Methods :
                    /\ Len(tok) = Len(MethodNames[m])
                    /\ \A k \in 1..Len(tok) : tok[k] \in Cases(MethodNames[m][k])}
    IN  IF hit # {} THEN Ok(CHOOSE m \in hit : TRUE) ELSE Err

\* C11: both conversions of a string to a Method, str::parse::<Method> and
\* Method::try_from(&str), map every spelling of the nine methods, in any
\* letter case, to that method and give an error for every other token.
C11_EveryConversionAnyLetterCase ==
    /\ parsed # None => parsed = Some(Expected(token))
    /\ tried # None => tried = Some(Expected(token))

\* C12: Request::from_parts never panics: whatever the method token and the
\* target of the message, the outcome is a value.
C12_FromPartsNeverPanics ==
    built # None => built # Some("panic")

\* -------------------------------------------- specification of connections

\* One server of either kind, its accept loop and the connections made to it.
ConnInit ==
    /\ ControllerIdle
    /\ RegistryIdle
    /\ NoMessage
    /\ \E k \in ServerKinds : NoListener(k)

ConnNext ==
    /\ \/ Grpc
       \/ RunServer
       \/ AcceptOk
       \/ AcceptErr
       \/ \E i \in ConnIds :
           \/ Connect(i)
           \/ ServeConnection(i)
           \/ Negotiate(i)
           \/ ConnError(i)
           \/ Disconnect(i)
    /\ UNCHANGED <<ctlVars, regVars, reqVars, lockVars>>

ConnSpec == ConnInit /\ [][ConnNext]_vars

\* The accept loop is a spawned task of its own: the runtime keeps scheduling
\* it, and listener.accept() returns a waiting connection. Nothing is assumed
\* of the connection tasks: a connection may stay open forever.
FairConnSpec ==
    ConnSpec /\ WF_vars(AcceptOk /\ UNCHANGED <<ctlVars, regVars, reqVars, lockVars>>)

\* ------------------------------------------- properties of the connections

\* C13: errors are contained. A step in which listener.accept() fails leaves
\* the accept loop running, with the same queue and the same connections; a
\* step in which a connection fails closes that connection and leaves the
\* accept loop, the queue and every other connection as they were.
C13_ErrorsAreContained ==
    [][/\ acceptErrors' # acceptErrors =>
            /\ server_kind # None
            /\ server_kind' = server_kind
            /\ backlog' = backlog
            /\ cstate' = cstate
       /\ \A i \in ConnIds : i \in failed' \ failed =>
            /\ cstate'[i] = "closed"
            /\ \A j \in ConnIds \ {i} : cstate'[j] = cstate[j]
            /\ server_kind' = server_kind
            /\ backlog' = backlog]_vars

\* An accept error and a connection error have happened; the accept loop is
\* running and a connection accepted by it is being served.
C13_Witness ==
    /\ acceptErrors > 0
    /\ server_kind # None
    /\ \E i \in failed : \E j \in ConnIds \ failed : cstate[j] = "serving"

\* C14: a connection waiting in the listener's queue is eventually accepted,
\* however many accepted connections are open and however long they stay.
C14_PendingEventuallyAccepted ==
    \A i \in ConnIds : (cstate[i] = "pending") ~> (cstate[i] # "pending")

\* A connection has just been accepted and every other one is being served.
C14_Witness ==
    \E i \in ConnIds :
        /\ cstate[i] = "accepted"
        /\ \A j \in ConnIds \ {i} : cstate[j] = "serving"

\* The lifecycle steps of a connection with the given builder.
Lifecycle(b) ==
    {<<"none", "pending">>, <<"pending", "accepted">>, <<"serving", "closed">>}
        \cup (IF b = Some("http2_only")
              THEN {<<"accepted", "serving">>}
              ELSE {<<"accepted", "negotiating">>, <<"negotiating", "serving">>,
                    <<"negotiating", "closed">>})

\* A step keeps the framing strategy of connection i, moves it along the
\* lifecycle of its strategy only, never out of closed, and serves a
\* connection without negotiation as HTTP/2 only.
FramingKept(i) ==
    /\ builder[i] # None => builder'[i] = builder[i]
    /\ cstate'[i] # cstate[i] => <<cstate[i], cstate'[i]>> \in Lifecycle(builder'[i])
    /\ builder'[i] = Some("http2_only") => protocol'[i] \subseteq {"HTTP/2"}
    /\ builder'[i] = Some("auto") /\ cstate'[i] \in {"serving", "closed"} /\ i \notin failed'
        => protocol'[i] # None

\* The connection i is accepted in this step.
Accepted(i) == cstate[i] = "pending" /\ cstate'[i] = "accepted"

\* C17 as stated: a connection gets, when it is accepted, the framing
\* strategy of the server's kind (negotiation for Http, HTTP/2 only for
\* Grpc), keeps it, and follows the lifecycle of that strategy.
C17_FramingFixedByServerKind ==
    [][\A i \in ConnIds :
        /\ Accepted(i) =>
            builder'[i] = Some(IF kind = "Grpc" THEN "http2_only" ELSE "auto")
        /\ FramingKept(i)]_vars

\* C17 amended: a connection gets, when it is accepted, the framing strategy
\* of the kind the server had when start() spawned the accept loop, keeps it,
\* and follows the lifecycle of that strategy.
C17_FramingFixedByKindAtStart ==
    [][\A i \in ConnIds :
        /\ Accepted(i) =>
            \E k \in server_kind :
                builder'[i] = Some(IF k = "Grpc" THEN "http2_only" ELSE "auto")
        /\ FramingKept(i)]_vars

\* A server started as Http and made Grpc afterwards has closed a negotiated
\* HTTP/1.1 connection and is serving another one.
C17_Witness ==
    /\ server_kind = Some("Http")
    /\ kind = "Grpc"
    /\ \E i \in ConnIds : \E j \in ConnIds :
        /\ cstate[i] = "closed"
        /\ protocol[i] = Some("HTTP/1.1")
        /\ cstate[j] = "serving"

\* ------------------------------------------------ specification of the lock

\* The registry of one server behind its RwLock: the test registers and
\* replaces mocks and may keep the guard of MockServer::mocks(), inspecting
\* tasks read the registry, one connection task dispatches requests.
LockInit == RegistryInit

LockNext ==
    /\ \/ /\ \/ RegisterMock
             \/ RegisterMockWithOptions
             \/ WithMocks
             \/ \E t \in {"t1"} :
                 \/ Receive(t)
                 \/ LockWrite(t)
                 \/ SelectMock(t)
                 \/ ConsumeMock(t)
          /\ UNCHANGED lockVars
       \/ MocksGuard
       \/ GuardSuspend
       \/ GuardResume
       \/ GuardDrop
       \/ \E i \in Inspectors :
           \/ ReadLock(i)
           \/ ReadUnlock(i)
    /\ UNCHANGED <<reqVars, connVars>>

LockSpec == LockInit /\ [][LockNext]_vars

\* ---------------------------------------------------- properties of the lock

\* The holder of a guard is suspended at an .await.
Suspended(h) == h = "test" /\ tpc = "suspended"

\* C15: no exclusive hold on the registry spans a suspension point: whoever
\* holds the write guard, taken through with_mocks, mock, mock_with_options
\* or mocks, is not suspended.
C15_NoWriteHoldSpansSuspension ==
    \A h \in WriteHolders : ~Suspended(h)

\* The lock admits no holder, any number of readers, or exactly one writer.
MutuallyExclusive ==
    /\ Cardinality(WriteHolders) <= 1
    /\ WriteHolders # {} => readers = {}
    /\ writer = WriteHolders

\* C16: access to the registry is mutually exclusive for writers: in every
\* state there is no holder, any number of readers, or exactly one writer;
\* the set changes only in a step of the single write holder or of an
\* operation that found the lock free; a reader's set stays the one it read
\* for as long as it holds its guard; and an insert keeps the mocks that were
\* there, in their order.
C16_WritersExclusive ==
    [][/\ MutuallyExclusive'
       /\ mocks' # mocks => readers = {} /\ Cardinality(WriteHolders) <= 1
       /\ \A i \in readers' : seen'[i] = Some(mocks')
       /\ Len(mocks') = Len(mocks) + 1 => SubSeq(mocks', 1, Len(mocks)) = mocks]_vars

\* Both inspecting tasks hold a read guard on a registry of two mocks, one of
\* them already fired, while a connection task waits for the write guard.
C16_Witness ==
    /\ readers = Inspectors
    /\ Len(mocks) = 2
    /\ \E k \in 1..Len(mocks) : mocks[k].fired_count > 0
    /\ \E t \in Conns : cpc[t] = "waiting"

\* --------------------------------------- further properties of start()

\* C18: the published address and base URL are consistent for every
\* observer, one running concurrently with start() included: in every state
\* is_running() holds exactly when base_url() is Some.
C18_RunningIffBaseUrl ==
    \A s \in Servers : IsRunning(s) <=> BaseUrl(s) # None

\* C19: a start() that returns a startup failure (bind exhausted, not ready)
\* leaves nothing behind: when it returns, the listener bound by that call
\* is no longer bound and no accept loop spawned by it is running.
C19_FailedStartLeavesNothing ==
    [][\A c \in Calls : \A res \in StartupFailures :
        ReturnsWith(c, res) =>
            /\ listener[c] \cap bound' = {}
            /\ listener[c] \cap acceptLoops' = {}]_vars

\* C20: the published port lies in the configured range,
\* port_range_start <= port() < port_range_end, ranges that start at port 0
\* included.
C20_PublishedPortInRange ==
    \A s \in Servers : \A p \in Port(s) :
        /\ config[s].port_range_start <= p
        /\ p < config[s].port_range_end

====
